---- MODULE Spec2Model ----
(***************************************************************************)
(* Chunk engine of Hub (hub/core/chunk_engine): the sample writer of       *)
(* write.py, the cache chain it writes through and the key/value providers *)
(* it writes to.  Byte strings are sequences of naturals, a provider's     *)
(* mapper is a function from storage keys to byte strings.                 *)
(***************************************************************************)
EXTENDS Integers, Sequences, FiniteSets, TLC

VARIABLES
    storage,        \* the durable backend: storage key -> bytes
    cache_chain,    \* sequence of cache tiers, each a bounded provider
    chunk_size,     \* the chunk_size every call of the session passes
    compressor,     \* the compressor every call of the session passes
    index_entries,  \* history: per tensor key, the entries its writes recorded
    ncalls,         \* history: per tensor key, the number of write calls made
    ncache_ops,     \* history: the number of direct cache-chain calls made
    last,           \* history: the most recent call, its inputs and outcome
    gen,            \* a run of generate_chunks over a batch of byte inputs
    norm,           \* one application of the shape normaliser
    race,           \* two write calls to one key running side by side
    written         \* history: per storage key, the payload of the latest
                    \* successful direct write_bytes_with_caching call

vars == <<storage, cache_chain, chunk_size, compressor, index_entries, ncalls, ncache_ops, last, gen, norm, race, written>>

----------------------------------------------------------------------------
(* Bounds of the model *)

MaxWrites == 2        \* chunk_and_write_array calls in one behaviour
MaxTiers == 2         \* tiers in a directly driven cache chain
MaxSessionTiers == 1  \* tiers in the cache chain of a write session
MaxElems == 2         \* elements in an input array
MaxCapacity == 2      \* total capacity of a cache tier, in bytes
MaxCacheOps == 4      \* direct cache-chain calls in one behaviour
MaxBatch == 3         \* byte inputs fed to successive generate_chunks calls
MaxInputLen == 4      \* bytes in one input of generate_chunks
MaxChunkSize == 3     \* chunk sizes 1..MaxChunkSize given to generate_chunks
MaxRank == 8          \* rank of a shape given to the normaliser
MaxDim == 2           \* size of one dimension of such a shape
MaxPayloadLen == 2    \* bytes in a directly cached payload

Tensors == {"tensor", "other"}
DTypes == {"uint8", "uint16"}
ChunkSizes == {2, 3}
Compressors == {"identity", "rle"}
TierCapacities == 1..MaxCapacity

----------------------------------------------------------------------------
(* Small helpers *)

Min(a, b) == IF a <= b THEN a ELSE b

RECURSIVE Product(_)
Product(shape) == IF shape = <<>> THEN 1 ELSE Head(shape) * Product(Tail(shape))

\* dict assignment and deletion on a key -> bytes mapping
SetKey(m, k, v) == [x \in (DOMAIN m) \cup {k} |-> IF x = k THEN v ELSE m[x]]
DelKey(m, k) == [x \in (DOMAIN m) \ {k} |-> m[x]]

EmptyMap == [x \in {} |-> <<>>]

\* os.path.join(key, "c%i" % i) and os.path.join(key, "index_map")
ChunkKey(key, i) == <<key, "c", i>>
IndexMapKey(key) == <<key, "index_map">>
IsChunkKeyOf(k, key) == Len(k) = 3 /\ k[1] = key
IsChunkKey(k) == Len(k) = 3

----------------------------------------------------------------------------
(* Arrays and their serialisation *)

ItemSize(dtype) == IF dtype = "uint16" THEN 2 ELSE 1

\* one element in native (little-endian) byte order
ElemBytes(dtype, v) ==
    IF dtype = "uint16" THEN <<v % 256, (v \div 256) % 256>> ELSE <<v % 256>>

RECURSIVE DataBytes(_, _)
DataBytes(dtype, data) ==
    IF data = <<>> THEN <<>>
    ELSE ElemBytes(dtype, Head(data)) \o DataBytes(dtype, Tail(data))

\* array.tobytes(): row-major, native width per element
array_to_bytes(array) == DataBytes(array.dtype, array.data)

RECURSIVE BytesData(_, _)
BytesData(dtype, b) ==
    IF Len(b) < ItemSize(dtype) THEN <<>>
    ELSE IF dtype = "uint16"
         THEN <<b[1] + 256 * b[2]>> \o BytesData(dtype, SubSeq(b, 3, Len(b)))
         ELSE <<b[1]>> \o BytesData(dtype, Tail(b))

RECURSIVE StripTrailingOnes(_)
StripTrailingOnes(shape) ==
    IF Len(shape) > 2 /\ shape[Len(shape)] = 1
    THEN StripTrailingOnes(SubSeq(shape, 1, Len(shape) - 1))
    ELSE shape

\* a normaliser that keeps the trailing dimensions of size 1
normalize_shape_keep_trailing(shape, batched) ==
    IF batched THEN shape ELSE <<1>> \o shape

normalize_shape(shape, batched) ==
    StripTrailingOnes(IF batched THEN shape ELSE <<1>> \o shape)

normalize_and_batchify_shape(array, batched) ==
    [dtype |-> array.dtype,
     shape |-> normalize_shape(array.shape, batched),
     data |-> array.data]

----------------------------------------------------------------------------
(* Chunk generator *)

RECURSIVE SplitBytes(_, _)
SplitBytes(b, n) ==
    IF Len(b) = 0 THEN <<>>
    ELSE IF Len(b) <= n THEN <<b>>
    ELSE <<SubSeq(b, 1, n)>> \o SplitBytes(SubSeq(b, n + 1, Len(b)), n)

\* a generator that yields nothing for the bytes that fill the previous chunk
generate_chunks_drop_fill(b, csize, last_chunk_num_bytes) ==
    LET first == IF last_chunk_num_bytes # <<>> /\ last_chunk_num_bytes[1] < csize
                 THEN Min(csize - last_chunk_num_bytes[1], Len(b))
                 ELSE 0
    IN SplitBytes(SubSeq(b, first + 1, Len(b)), csize)

\* a generator that starts a new chunk whatever last_chunk_num_bytes is
generate_chunks_ignore_last(b, csize, last_chunk_num_bytes) ==
    SplitBytes(b, csize)

\* last_chunk_num_bytes is <<>> for None and <<n>> for the number n
generate_chunks(b, csize, last_chunk_num_bytes) ==
    LET first == IF last_chunk_num_bytes # <<>> /\ last_chunk_num_bytes[1] < csize
                 THEN Min(csize - last_chunk_num_bytes[1], Len(b))
                 ELSE 0
    IN (IF first > 0 THEN <<SubSeq(b, 1, first)>> ELSE <<>>)
       \o SplitBytes(SubSeq(b, first + 1, Len(b)), csize)

----------------------------------------------------------------------------
(* Compressors: the caller's bytes -> bytes function and its inverse *)

RECURSIVE RunLength(_)
RunLength(b) ==
    IF b = <<>> THEN <<>>
    ELSE LET rest == RunLength(Tail(b))
         IN IF rest # <<>> /\ rest[2] = Head(b)
            THEN <<rest[1] + 1, rest[2]>> \o SubSeq(rest, 3, Len(rest))
            ELSE <<1, Head(b)>> \o rest

RECURSIVE RunExpand(_)
RunExpand(c) ==
    IF Len(c) < 2 THEN <<>>
    ELSE [i \in 1..c[1] |-> c[2]] \o RunExpand(SubSeq(c, 3, Len(c)))

Compress(comp, chunk) ==
    CASE comp = "identity" -> chunk
      [] comp = "rle" -> RunLength(chunk)

Decompress(comp, c) ==
    CASE comp = "identity" -> c
      [] comp = "rle" -> RunExpand(c)

----------------------------------------------------------------------------
(* Index map serialisation: pickle.dumps / pickle.loads of a list of       *)
(* {start_chunk, end_chunk, dtype, shape} dictionaries                     *)

DTypeTag(dtype) == IF dtype = "uint16" THEN 2 ELSE 1
TagDType(tag) == IF tag = 2 THEN "uint16" ELSE "uint8"

EntryBytes(e) ==
    <<e.start_chunk, e.end_chunk, DTypeTag(e.dtype), Len(e.shape)>> \o e.shape

RECURSIVE EntriesBytes(_)
EntriesBytes(es) ==
    IF es = <<>> THEN <<>> ELSE EntryBytes(Head(es)) \o EntriesBytes(Tail(es))

pickle_dumps(index_map) == <<Len(index_map)>> \o EntriesBytes(index_map)

RECURSIVE ParseEntries(_, _)
ParseEntries(n, b) ==
    IF n = 0 THEN <<>>
    ELSE LET rank == b[4]
         IN <<[start_chunk |-> b[1], end_chunk |-> b[2],
               dtype |-> TagDType(b[3]), shape |-> SubSeq(b, 5, 4 + rank)]>>
            \o ParseEntries(n - 1, SubSeq(b, 5 + rank, Len(b)))

pickle_loads(blob) == ParseEntries(blob[1], Tail(blob))

----------------------------------------------------------------------------
(* Storage provider: a bounded cache tier is                               *)
(* [mapper, used_space, total_capacity]; the durable backend is unbounded  *)
(* and is modelled by its mapper alone.                                    *)

has_space(cache, num_bytes) == cache.used_space + num_bytes <= cache.total_capacity

\* cache[key] = b
ProviderSet(cache, key, b) ==
    [cache EXCEPT !.mapper = SetKey(@, key, b), !.used_space = @ + Len(b)]

\* del cache[key]
ProviderDel(cache, key) ==
    [cache EXCEPT !.mapper = DelKey(@, key),
                  !.used_space = @ - Len(cache.mapper[key])]

EmptyProvider(capacity) ==
    [mapper |-> EmptyMap, used_space |-> 0, total_capacity |-> capacity]

----------------------------------------------------------------------------
(* Cache chain (write.py).  An operator that names an intermediate result  *)
(* takes it as a parameter: X_then(..., r) is the rest of X once r is known *)

\* a backend that keeps the value a key already has
write_to_storage_keep_first(key, b, st) ==
    IF key \in DOMAIN st THEN st ELSE SetKey(st, key, b)

\* storage[key] = b
write_to_storage(key, b, st) == SetKey(st, key, b)

RECURSIVE FirstWithSpace(_, _, _)
FirstWithSpace(chain, num_bytes, i) ==
    IF i > Len(chain) THEN 0
    ELSE IF has_space(chain[i], num_bytes) THEN i
    ELSE FirstWithSpace(chain, num_bytes, i + 1)

\* the body of write_to_cache once the first tier with space, i, is known
\* (0 when there is none); tier is the index of the tier written
write_to_cache_then(key, b, chain, i) ==
    IF i = 0
    THEN [chain |-> chain, success |-> FALSE, tier |-> 0]
    ELSE [chain |-> [chain EXCEPT ![i] = ProviderSet(@, key, b)],
          success |-> TRUE, tier |-> i]

\* write_to_cache without the return inside its loop
write_to_cache_no_return(key, b, chain) ==
    [chain |-> [i \in 1..Len(chain) |->
                   IF has_space(chain[i], Len(b))
                   THEN ProviderSet(chain[i], key, b) ELSE chain[i]],
     success |-> \E i \in 1..Len(chain) : has_space(chain[i], Len(b)),
     tier |-> FirstWithSpace(chain, Len(b), 1)]

write_to_cache(key, b, chain) ==
    write_to_cache_then(key, b, chain, FirstWithSpace(chain, Len(b), 1))

\* the second loop of flush_cache: del cache[key] for every key collected
RECURSIVE DeleteKeys(_, _)
DeleteKeys(cache, keys) ==
    IF keys = {} THEN cache
    ELSE DeleteKeys(ProviderDel(cache, CHOOSE x \in keys : TRUE),
                    keys \ {CHOOSE x \in keys : TRUE})

\* the first loop of flush_cache: storage[key] = chunk for every pair
CopyAll(cache, st) ==
    [k \in (DOMAIN st) \cup (DOMAIN cache.mapper) |->
        IF k \in DOMAIN cache.mapper THEN cache.mapper[k] ELSE st[k]]

RECURSIVE FlushFrom(_, _, _)
FlushFrom(chain, st, i) ==
    IF i > Len(chain) THEN [chain |-> chain, storage |-> st]
    ELSE FlushFrom([chain EXCEPT ![i] = DeleteKeys(@, DOMAIN chain[i].mapper)],
                   CopyAll(chain[i], st), i + 1)

flush_cache(chain, st) == FlushFrom(chain, st, 1)

\* write.py:100-104, the second scan: w2 is its result, st the flushed backend
retry_then(w2, st) ==
    [chain |-> w2.chain, storage |-> st, ok |-> w2.success, flushes |-> 1,
     tier |-> w2.tier]

\* the second scan falling back to the backend instead of raising
retry_then_fallback(key, b, w2, st) ==
    [chain |-> w2.chain,
     storage |-> IF w2.success THEN st ELSE write_to_storage(key, b, st),
     ok |-> w2.success, flushes |-> 1, tier |-> w2.tier]

\* write.py:99-100: f is the flushed chain and backend
flush_then(key, b, f) == retry_then(write_to_cache(key, b, f.chain), f.storage)

flush_then_fallback(key, b, f) ==
    retry_then_fallback(key, b, write_to_cache(key, b, f.chain), f.storage)

\* write.py:96-104: w1 is the result of the first scan
first_scan_then(key, b, chain, st, w1) ==
    IF w1.success
    THEN [chain |-> w1.chain, storage |-> st, ok |-> TRUE, flushes |-> 0,
          tier |-> w1.tier]
    ELSE flush_then(key, b, flush_cache(chain, st))

first_scan_then_fallback(key, b, chain, st, w1) ==
    IF w1.success
    THEN [chain |-> w1.chain, storage |-> st, ok |-> TRUE, flushes |-> 0,
          tier |-> w1.tier]
    ELSE flush_then_fallback(key, b, flush_cache(chain, st))

\* write_bytes_with_caching falling back to the backend instead of raising
write_bytes_with_caching_fallback(key, b, chain, st) ==
    IF Len(chain) <= 0
    THEN [chain |-> chain, storage |-> write_to_storage(key, b, st),
          ok |-> TRUE, flushes |-> 0, tier |-> 0]
    ELSE first_scan_then_fallback(key, b, chain, st, write_to_cache(key, b, chain))

write_bytes_with_caching(key, b, chain, st) ==
    IF Len(chain) <= 0
    THEN [chain |-> chain, storage |-> write_to_storage(key, b, st),
          ok |-> TRUE, flushes |-> 0, tier |-> 0]
    ELSE first_scan_then(key, b, chain, st, write_to_cache(key, b, chain))

----------------------------------------------------------------------------
(* Sample writer (write.py) *)

RECURSIVE WriteChunks(_, _, _, _, _, _)
RECURSIVE chunk_written_then(_, _, _, _, _)

\* the loop of chunk_and_write_bytes from local_chunk_index i on
\* a loop that files every chunk under the first tensor's name
WriteChunks_one_tensor(chunks, i, key, comp, chain, st) ==
    IF i >= Len(chunks)
    THEN [chain |-> chain, storage |-> st, ok |-> TRUE]
    ELSE chunk_written_then(chunks, i, key, comp,
             write_bytes_with_caching(ChunkKey("tensor", i),
                                      Compress(comp, chunks[i + 1]), chain, st))

WriteChunks(chunks, i, key, comp, chain, st) ==
    IF i >= Len(chunks)
    THEN [chain |-> chain, storage |-> st, ok |-> TRUE]
    ELSE chunk_written_then(chunks, i, key, comp,
             write_bytes_with_caching(ChunkKey(key, i), Compress(comp, chunks[i + 1]),
                                      chain, st))

\* the loop after chunk i: w is the result of its write_bytes_with_caching
chunk_written_then(chunks, i, key, comp, w) ==
    IF ~w.ok
    THEN [chain |-> w.chain, storage |-> w.storage, ok |-> FALSE]
    ELSE WriteChunks(chunks, i + 1, key, comp, w.chain, w.storage)

\* an end of call that returns the range 0..-1 when there was no chunk
final_flush_then_empty_range(f, n) ==
    [chain |-> f.chain, storage |-> f.storage, result |-> "ok",
     start_chunk |-> 0, end_chunk |-> n - 1]

\* write.py:83-86: f is the result of the final flush, n the number of chunks;
\* with no chunk, local_chunk_index is unbound at line 85
final_flush_then(f, n) ==
    IF n = 0
    THEN [chain |-> f.chain, storage |-> f.storage, result |-> "UnboundLocalError",
          start_chunk |-> 0, end_chunk |-> 0]
    ELSE [chain |-> f.chain, storage |-> f.storage, result |-> "ok",
          start_chunk |-> 0, end_chunk |-> n - 1]

\* an end of call that leaves what the loop cached in the tiers
loop_then_no_flush(w, n) ==
    IF ~w.ok
    THEN [chain |-> w.chain, storage |-> w.storage, result |-> "CachingFailed",
          start_chunk |-> 0, end_chunk |-> 0]
    ELSE final_flush_then([chain |-> w.chain, storage |-> w.storage], n)

\* write.py:81-86: w is the state the loop ended in
loop_then(w, n) ==
    IF ~w.ok
    THEN [chain |-> w.chain, storage |-> w.storage, result |-> "CachingFailed",
          start_chunk |-> 0, end_chunk |-> 0]
    ELSE final_flush_then(flush_cache(w.chain, w.storage), n)

\* write.py:74-86: chunks is what generate_chunks yields
chunks_then(chunks, key, comp, st, chain) ==
    loop_then(WriteChunks(chunks, 0, key, comp, chain, st), Len(chunks))

chunk_and_write_bytes(b, key, comp, csize, st, chain) ==
    chunks_then(generate_chunks(b, csize, <<>>), key, comp, st, chain)

NoEntry == [start_chunk |-> 0, end_chunk |-> 0, dtype |-> "none", shape |-> <<>>]

IndexMapEntry(array, start_chunk, end_chunk) ==
    [start_chunk |-> start_chunk, end_chunk |-> end_chunk,
     dtype |-> array.dtype, shape |-> array.shape]

\* write.py:40-55: r is the result of chunk_and_write_bytes; the list starts
\* empty and holds the one entry of this call when it is written
bytes_written_then(array, key, r) ==
    IF r.result # "ok"
    THEN [chain |-> r.chain, storage |-> r.storage, result |-> r.result,
          entry |-> NoEntry]
    ELSE [chain |-> r.chain,
          storage |-> write_to_storage(
                          IndexMapKey(key),
                          pickle_dumps(Append(<<>>,
                              IndexMapEntry(array, r.start_chunk, r.end_chunk))),
                          r.storage),
          result |-> "ok",
          entry |-> IndexMapEntry(array, r.start_chunk, r.end_chunk)]

\* a writer that looks at batched only after the sample has been written
late_guard_then(batched, r) ==
    IF batched THEN [r EXCEPT !.result = "NotImplemented", !.entry = NoEntry] ELSE r

chunk_and_write_array_late_guard(array, key, comp, csize, st, chain, batched) ==
    late_guard_then(batched, bytes_written_then(array, key,
        chunk_and_write_bytes(array_to_bytes(array), key, comp, csize, st, chain)))

\* write.py:12-55; the raise of lines 25-27 comes before any other statement
chunk_and_write_array(array, key, comp, csize, st, chain, batched) ==
    IF batched
    THEN [chain |-> chain, storage |-> st, result |-> "NotImplemented", entry |-> NoEntry]
    ELSE bytes_written_then(array, key,
             chunk_and_write_bytes(array_to_bytes(array), key, comp, csize, st, chain))

----------------------------------------------------------------------------
(* Sample reader *)

NoArray == [dtype |-> "none", shape |-> <<>>, data |-> <<>>]

RECURSIVE FetchChunks(_, _, _, _, _)
FetchChunks(key, i, end, st, comp) ==
    IF i > end THEN <<>>
    ELSE Decompress(comp, st[ChunkKey(key, i)]) \o FetchChunks(key, i + 1, end, st, comp)

\* step 4: reinterpret the bytes b as an array of the entry's dtype and shape
reinterpret(e, b) ==
    IF Len(b) # Product(e.shape) * ItemSize(e.dtype)
    THEN [result |-> "ValueError", array |-> NoArray]
    ELSE [result |-> "ok",
          array |-> [dtype |-> e.dtype, shape |-> e.shape, data |-> BytesData(e.dtype, b)]]

\* step 3: fetch the chunks of entry e
read_entry(key, e, st, comp) ==
    IF \E i \in e.start_chunk..e.end_chunk : ChunkKey(key, i) \notin DOMAIN st
    THEN [result |-> "NotFound", array |-> NoArray]
    ELSE reinterpret(e, FetchChunks(key, e.start_chunk, e.end_chunk, st, comp))

\* step 2: index into the entries
read_index(key, sample_index, entries, st, comp) ==
    IF sample_index < 0 \/ sample_index >= Len(entries)
    THEN [result |-> "IndexError", array |-> NoArray]
    ELSE read_entry(key, entries[sample_index + 1], st, comp)

read_sample(key, sample_index, st, comp) ==
    IF IndexMapKey(key) \notin DOMAIN st
    THEN [result |-> "NotFound", array |-> NoArray]
    ELSE read_index(key, sample_index, pickle_loads(st[IndexMapKey(key)]), st, comp)

----------------------------------------------------------------------------
(* Inputs *)

\* element i of an input array: two neighbouring values, alternating
ElemBase(dtype) == IF dtype = "uint16" THEN 257 ELSE 7
InputData(dtype, n, seed) == [i \in 1..n |-> ElemBase(dtype) + ((i - 1 + seed) % 2)]

Shapes == {<<n>> : n \in 0..MaxElems} \cup {<<MaxElems, 1>>}

Arrays ==
    {[dtype |-> d, shape |-> s, data |-> InputData(d, Product(s), seed)] :
        d \in DTypes, s \in Shapes, seed \in {0, 1}}

\* the empty cache chains of at most maxTiers tiers with the given capacities
Chains(maxTiers, capacities) ==
    UNION {[1..n -> {EmptyProvider(c) : c \in capacities}] : n \in 0..maxTiers}

NoKey == <<>>

InitLast ==
    [op |-> "init", key |-> "", skey |-> NoKey, b |-> <<>>, array |-> NoArray,
     batched |-> FALSE, result |-> "ok", flushes |-> 0, tier |-> 0]

\* the runs of the other specifications, not started
NoCall == [b |-> <<>>, last_chunk_num_bytes |-> <<>>, slices |-> <<>>]

NoGen ==
    [bytes_batch |-> <<>>, fed |-> 0, slices |-> <<>>, actual_chunks |-> <<>>,
     last_chunk_num_bytes |-> <<>>, call |-> NoCall]

NoNorm == [shape |-> <<>>, batched |-> FALSE, out |-> <<>>, done |-> FALSE]

NoRace == [arrays |-> <<>>, pc |-> <<>>, wrote |-> EmptyMap]

----------------------------------------------------------------------------
(* The write session: one backend, one cache chain, samples written one    *)
(* after another with chunk_and_write_array                                *)

Init ==
    /\ storage = EmptyMap
    /\ cache_chain \in Chains(MaxSessionTiers, {MaxCapacity})
    /\ chunk_size \in ChunkSizes
    /\ compressor \in Compressors
    /\ index_entries = [t \in Tensors |-> <<>>]
    /\ ncalls = [t \in Tensors |-> 0]
    /\ ncache_ops = 0
    /\ last = InitLast
    /\ gen = NoGen
    /\ norm = NoNorm
    /\ race = NoRace
    /\ written = EmptyMap

TotalCalls == ncalls["tensor"] + ncalls["other"]

\* the state after a chunk_and_write_array call with result r
ChunkAndWriteArrayDone(array, key, batched, r) ==
    /\ storage' = r.storage
    /\ cache_chain' = r.chain
    /\ ncalls' = [ncalls EXCEPT ![key] = @ + 1]
    /\ index_entries' = IF r.result = "ok"
                        THEN [index_entries EXCEPT ![key] = Append(@, r.entry)]
                        ELSE index_entries
    /\ last' = [op |-> "chunk_and_write_array", key |-> key, skey |-> NoKey,
                b |-> array_to_bytes(array), array |-> array,
                batched |-> batched, result |-> r.result,
                flushes |-> 0, tier |-> 0]

ChunkAndWriteArray ==
    /\ TotalCalls < MaxWrites
    /\ \E array \in Arrays, key \in Tensors, batched \in BOOLEAN :
          ChunkAndWriteArrayDone(array, key, batched,
              chunk_and_write_array(array, key, compressor, chunk_size,
                                    storage, cache_chain, batched))
    /\ UNCHANGED <<chunk_size, compressor, ncache_ops, gen, norm, race, written>>

Next == ChunkAndWriteArray

Spec == Init /\ [][Next]_vars

----------------------------------------------------------------------------
(* The cache chain driven directly: write_bytes_with_caching and           *)
(* flush_cache called on chunk keys, in any order                          *)

CacheKeys == {ChunkKey("tensor", i) : i \in 0..1}

Payloads == {[i \in 1..n |-> v] : n \in 1..MaxPayloadLen, v \in {1, 2}}

InitCache ==
    /\ storage = EmptyMap
    /\ cache_chain \in Chains(MaxTiers, TierCapacities)
    /\ chunk_size = MaxPayloadLen
    /\ compressor = "identity"
    /\ index_entries = [t \in Tensors |-> <<>>]
    /\ ncalls = [t \in Tensors |-> 0]
    /\ ncache_ops = 0
    /\ last = InitLast
    /\ gen = NoGen
    /\ norm = NoNorm
    /\ race = NoRace
    /\ written = EmptyMap

\* the state after a write_bytes_with_caching call with result w
WriteBytesWithCachingDone(key, b, w) ==
    /\ storage' = w.storage
    /\ cache_chain' = w.chain
    /\ last' = [op |-> "write_bytes_with_caching", key |-> "", skey |-> key,
                b |-> b, array |-> NoArray, batched |-> FALSE,
                result |-> IF w.ok THEN "ok" ELSE "CachingFailed",
                flushes |-> w.flushes, tier |-> w.tier]
    /\ written' = IF w.ok THEN SetKey(written, key, b) ELSE written

WriteBytesWithCaching ==
    /\ ncache_ops < MaxCacheOps
    /\ ncache_ops' = ncache_ops + 1
    /\ \E key \in CacheKeys, b \in Payloads :
          WriteBytesWithCachingDone(key, b,
              write_bytes_with_caching(key, b, cache_chain, storage))
    /\ UNCHANGED <<chunk_size, compressor, index_entries, ncalls, gen, norm, race>>

\* the state after a flush_cache call with result f
FlushCacheDone(f) ==
    /\ storage' = f.storage
    /\ cache_chain' = f.chain

FlushCache ==
    /\ ncache_ops < MaxCacheOps
    /\ ncache_ops' = ncache_ops + 1
    /\ FlushCacheDone(flush_cache(cache_chain, storage))
    /\ last' = [InitLast EXCEPT !.op = "flush_cache"]
    /\ UNCHANGED <<chunk_size, compressor, index_entries, ncalls, gen, norm, race, written>>

NextCache == WriteBytesWithCaching \/ FlushCache

SpecCache == InitCache /\ [][NextCache]_vars

----------------------------------------------------------------------------
(* The chunk generator driven as test_generate_chunks.run_test drives it:  *)
(* one generate_chunks call per input of the batch, each yielded slice     *)
(* appended to the running list of chunks                                  *)

GenChunkSizes == 1..MaxChunkSize

\* a batch of inputs of the given lengths, its bytes numbered 1, 2, 3, ...
RECURSIVE BytesBatch(_, _)
BytesBatch(lens, from) ==
    IF lens = <<>> THEN <<>>
    ELSE <<[i \in 1..Head(lens) |-> from + i]>>
         \o BytesBatch(Tail(lens), from + Head(lens))

BytesBatches ==
    {BytesBatch(lens, 0) : lens \in UNION {[1..n -> 0..MaxInputLen] : n \in 0..MaxBatch}}

\* test_generate_chunks.py:66-70
AppendSlice(actual_chunks, chunk, csize) ==
    IF Len(actual_chunks) <= 0 \/ Len(actual_chunks[Len(actual_chunks)]) >= csize
    THEN Append(actual_chunks, chunk)
    ELSE [actual_chunks EXCEPT ![Len(actual_chunks)] = @ \o chunk]

RECURSIVE AssembleChunks(_, _, _)
AssembleChunks(actual_chunks, slices, csize) ==
    IF slices = <<>> THEN actual_chunks
    ELSE AssembleChunks(AppendSlice(actual_chunks, Head(slices), csize),
                        Tail(slices), csize)

InitGen ==
    /\ storage = EmptyMap
    /\ cache_chain = <<>>
    /\ chunk_size \in GenChunkSizes
    /\ compressor = "identity"
    /\ index_entries = [t \in Tensors |-> <<>>]
    /\ ncalls = [t \in Tensors |-> 0]
    /\ ncache_ops = 0
    /\ last = InitLast
    /\ gen \in {[NoGen EXCEPT !.bytes_batch = bb] : bb \in BytesBatches}
    /\ norm = NoNorm
    /\ race = NoRace
    /\ written = EmptyMap

\* the state after the inner loop of run_test over the slices one
\* generate_chunks call yielded for the input b
RunTestInputDone(b, slices) ==
    gen' = [gen EXCEPT
              !.fed = @ + 1,
              !.slices = @ \o slices,
              !.actual_chunks = AssembleChunks(@, slices, chunk_size),
              !.last_chunk_num_bytes =
                  IF slices = <<>> THEN @ ELSE <<Len(slices[Len(slices)])>>,
              !.call = [b |-> b,
                        last_chunk_num_bytes |-> gen.last_chunk_num_bytes,
                        slices |-> slices]]

RunTestInput ==
    /\ gen.fed < Len(gen.bytes_batch)
    /\ RunTestInputDone(gen.bytes_batch[gen.fed + 1],
           generate_chunks(gen.bytes_batch[gen.fed + 1], chunk_size,
                           gen.last_chunk_num_bytes))
    /\ UNCHANGED <<storage, cache_chain, chunk_size, compressor, index_entries,
                   ncalls, ncache_ops, last, norm, race, written>>

NextGen == RunTestInput

SpecGen == InitGen /\ [][NextGen]_vars

----------------------------------------------------------------------------
(* The shape normaliser applied to one shape *)

InputShapes == UNION {[1..r -> 1..MaxDim] : r \in 1..MaxRank}

InitNorm ==
    /\ storage = EmptyMap
    /\ cache_chain = <<>>
    /\ chunk_size = MaxChunkSize
    /\ compressor = "identity"
    /\ index_entries = [t \in Tensors |-> <<>>]
    /\ ncalls = [t \in Tensors |-> 0]
    /\ ncache_ops = 0
    /\ last = InitLast
    /\ gen = NoGen
    /\ norm \in {[NoNorm EXCEPT !.shape = s, !.batched = bt] :
                    s \in InputShapes, bt \in BOOLEAN}
    /\ race = NoRace
    /\ written = EmptyMap

Normalize ==
    /\ ~norm.done
    /\ norm' = [norm EXCEPT !.out = normalize_shape(norm.shape, norm.batched),
                            !.done = TRUE]
    /\ UNCHANGED <<storage, cache_chain, chunk_size, compressor, index_entries,
                   ncalls, ncache_ops, last, gen, race, written>>

NextNorm == Normalize

SpecNorm == InitNorm /\ [][NextNorm]_vars

----------------------------------------------------------------------------
(* Two chunk_and_write_array calls on one key and one backend, each made   *)
(* as run_engine_test makes it (no cache chain), running side by side: a   *)
(* step is one pass of the chunk loop of chunk_and_write_bytes, or the end *)
(* of the call from the final flush to the write of the index map          *)

Writers == {1, 2}

SharedKey == "tensor"

\* pc of a writer: in the loop with i chunks written, returned, or raised
InLoop(i) == [at |-> "loop", i |-> i]

\* write.py:30, 71-72: the chunks writer w iterates over
WriterChunks(w) ==
    generate_chunks(array_to_bytes(race.arrays[w]), chunk_size, <<>>)

InitWriters ==
    /\ storage = EmptyMap
    /\ cache_chain = <<>>
    /\ chunk_size \in ChunkSizes
    /\ compressor \in Compressors
    /\ index_entries = [t \in Tensors |-> <<>>]
    /\ ncalls = [t \in Tensors |-> 0]
    /\ ncache_ops = 0
    /\ last = InitLast
    /\ gen = NoGen
    /\ norm = NoNorm
    /\ race \in {[arrays |-> <<a1, a2>>, pc |-> <<InLoop(0), InLoop(0)>>,
                   wrote |-> EmptyMap] : a1 \in Arrays, a2 \in Arrays}
    /\ written = EmptyMap

\* the state after writer w's pass i of the loop, wr the result of its
\* write_bytes_with_caching call
WriterChunkDone(w, i, wr) ==
    /\ storage' = wr.storage
    /\ cache_chain' = wr.chain
    /\ race' = [race EXCEPT
                  !.pc[w] = IF wr.ok THEN InLoop(i + 1) ELSE [at |-> "raised", i |-> i],
                  !.wrote = IF wr.ok THEN SetKey(@, ChunkKey(SharedKey, i), w) ELSE @]

\* write.py:74-79
WriterChunkStep ==
    /\ \E w \in Writers :
          /\ race.pc[w].at = "loop"
          /\ race.pc[w].i < Len(WriterChunks(w))
          /\ WriterChunkDone(w, race.pc[w].i,
                 write_bytes_with_caching(
                     ChunkKey(SharedKey, race.pc[w].i),
                     Compress(compressor, WriterChunks(w)[race.pc[w].i + 1]),
                     cache_chain, storage))
    /\ UNCHANGED <<chunk_size, compressor, index_entries, ncalls, ncache_ops,
                   last, gen, norm, written>>

\* the state after the end of writer w's call, r what bytes_written_then
\* makes of the final flush
WriterIndexMapDone(w, r) ==
    /\ storage' = r.storage
    /\ cache_chain' = r.chain
    /\ race' = [race EXCEPT
                  !.pc[w] = [at |-> IF r.result = "ok" THEN "returned" ELSE "raised",
                             i |-> race.pc[w].i],
                  !.wrote = IF r.result = "ok"
                            THEN SetKey(@, IndexMapKey(SharedKey), w) ELSE @]

\* write.py:81-86, 40-55
WriterIndexMapStep ==
    /\ \E w \in Writers :
          /\ race.pc[w].at = "loop"
          /\ race.pc[w].i >= Len(WriterChunks(w))
          /\ WriterIndexMapDone(w,
                 bytes_written_then(race.arrays[w], SharedKey,
                     final_flush_then(flush_cache(cache_chain, storage),
                                      Len(WriterChunks(w)))))
    /\ UNCHANGED <<chunk_size, compressor, index_entries, ncalls, ncache_ops,
                   last, gen, norm, written>>

NextWriters == WriterChunkStep \/ WriterIndexMapStep

SpecWriters == InitWriters /\ [][NextWriters]_vars

----------------------------------------------------------------------------
(* Properties of the write session (checked under Spec) *)

WriteStep == last'.op = "chunk_and_write_array" /\ ncalls' # ncalls

\* C1: read_sample(key, i, backend) issued right after the i-th write of a
\* sequence of writes to one key returns normalize(a_i, batched): same shape,
\* dtype and content.
C1_RoundTrip ==
    last.op = "chunk_and_write_array" =>
        read_sample(last.key, ncalls[last.key] - 1, storage, compressor)
            = [result |-> "ok",
               array |-> normalize_and_batchify_shape(last.array, last.batched)]

\* C2: the blob at key/index_map holds exactly the entries of the successful
\* writes to the key, in write order: one per write, earlier ones unchanged.
C2_IndexMapAppendOnly ==
    \A t \in Tensors :
        index_entries[t] # <<>> =>
            /\ IndexMapKey(t) \in DOMAIN storage
            /\ pickle_loads(storage[IndexMapKey(t)]) = index_entries[t]

\* C3: a write never changes or replaces a chunk the backend already holds,
\* and the chunk keys it adds have indices above all existing ones of the key.
C3_ChunksImmutable ==
    [][WriteStep =>
        /\ \A k \in DOMAIN storage :
              IsChunkKey(k) => k \in DOMAIN storage' /\ storage'[k] = storage[k]
        /\ \A k \in (DOMAIN storage') \ (DOMAIN storage) :
              IsChunkKey(k) =>
                  \A j \in DOMAIN storage : IsChunkKeyOf(j, k[1]) => k[3] > j[3]]_vars

\* C4: the chunk ranges of the entries recorded for a key are pairwise
\* disjoint and increasing in write order.
C4_RangesIncreasing ==
    \A t \in Tensors :
        \A i, j \in 1..Len(index_entries[t]) :
            i < j => index_entries[t][j].start_chunk > index_entries[t][i].end_chunk

\* C8: a write through a non-empty chain that fails for capacity leaves no
\* chunk written by the call visible on the backend.
C8_FailedWriteInvisible ==
    [][(WriteStep /\ Len(cache_chain) > 0 /\ last'.result = "CachingFailed") =>
        \A k \in DOMAIN storage' :
            IsChunkKeyOf(k, last'.key) =>
                k \in DOMAIN storage /\ storage'[k] = storage[k]]_vars

NumChunks(num_bytes) == (num_bytes + chunk_size - 1) \div chunk_size

KeysOfWrite(key, num_bytes) ==
    {ChunkKey(key, i) : i \in 0..(NumChunks(num_bytes) - 1)} \cup {IndexMapKey(key)}

\* C18: a successful write of L > 0 bytes to key K that starts with every
\* cache tier empty leaves on the backend the chunk keys K/c0 ..
\* K/c<ceil(L / chunk_size) - 1> and K/index_map, and creates, changes or
\* removes no other backend key.
C18_KeyLayoutAndFrame ==
    [][(/\ WriteStep
        /\ last'.result = "ok"
        /\ Len(last'.b) > 0
        /\ \A i \in 1..Len(cache_chain) : DOMAIN cache_chain[i].mapper = {}) =>
        /\ KeysOfWrite(last'.key, Len(last'.b)) \subseteq DOMAIN storage'
        /\ \A k \in (DOMAIN storage) \cup (DOMAIN storage') :
              k \notin KeysOfWrite(last'.key, Len(last'.b)) =>
                  /\ k \in DOMAIN storage
                  /\ k \in DOMAIN storage'
                  /\ storage'[k] = storage[k]]_vars

C18_Witness ==
    /\ last.op = "chunk_and_write_array"
    /\ last.result = "ok"
    /\ last.key = "other"
    /\ Len(last.b) > chunk_size
    /\ Len(cache_chain) > 0
    /\ ChunkKey("other", 1) \in DOMAIN storage
    /\ ChunkKey("tensor", 1) \in DOMAIN storage
    /\ ChunkKey("other", 2) \notin DOMAIN storage
    /\ storage[ChunkKey("tensor", 1)] # storage[ChunkKey("other", 1)]

\* the slices the writer of the last call cut its payload into
LastChunks == generate_chunks(last.b, chunk_size, <<>>)

\* C12: in a write call every chunk of exactly chunk_size bytes goes through
\* the compressor before it is stored, and a final chunk shorter than
\* chunk_size is stored as its raw bytes.
C12_CompressionBoundary ==
    (last.op = "chunk_and_write_array" /\ last.result = "ok") =>
        \A i \in 1..Len(LastChunks) :
            /\ ChunkKey(last.key, i - 1) \in DOMAIN storage
            /\ storage[ChunkKey(last.key, i - 1)]
                  = IF Len(LastChunks[i]) = chunk_size
                    THEN Compress(compressor, LastChunks[i])
                    ELSE LastChunks[i]

\* C13: after any sequence of writes to a key, every chunk stored for the key
\* except the highest-indexed one holds exactly chunk_size bytes of payload.
C13_SingleIncompleteChunk ==
    \A k \in DOMAIN storage :
        (IsChunkKey(k) /\ \E j \in DOMAIN storage : IsChunkKeyOf(j, k[1]) /\ j[3] > k[3])
            => Len(Decompress(compressor, storage[k])) = chunk_size

\* C21: when the chunk loop of a write call has returned normally every
\* cache tier is empty and every chunk key of the call is on the backend; so
\* whenever key/index_map on the backend holds an entry with range [s, e],
\* all of key/c<s> .. key/c<e> are on the backend.
C21_ChunksDurableBeforeIndex ==
    /\ (last.op = "chunk_and_write_array" /\ last.result = "ok") =>
          /\ \A t \in 1..Len(cache_chain) :
                /\ DOMAIN cache_chain[t].mapper = {}
                /\ cache_chain[t].used_space = 0
          /\ \A i \in 1..Len(LastChunks) :
                ChunkKey(last.key, i - 1) \in DOMAIN storage
    /\ \A t \in Tensors :
          IndexMapKey(t) \in DOMAIN storage =>
              \A j \in 1..Len(pickle_loads(storage[IndexMapKey(t)])) :
                  \A i \in pickle_loads(storage[IndexMapKey(t)])[j].start_chunk
                            ..pickle_loads(storage[IndexMapKey(t)])[j].end_chunk :
                      ChunkKey(t, i) \in DOMAIN storage

C21_Witness ==
    /\ last.op = "chunk_and_write_array"
    /\ last.result = "ok"
    /\ Len(cache_chain) > 0
    /\ Len(LastChunks) = 2
    /\ pickle_loads(storage[IndexMapKey(last.key)])[1].end_chunk = 1
    /\ ChunkKey(last.key, 1) \in DOMAIN storage

\* C23: a write call whose payload is empty writes no chunk key to a tier or
\* to the backend and ends in an error instead of a chunk range, so it
\* writes no index map and records no entry.
C23_EmptyPayload ==
    [][(WriteStep /\ ~last'.batched /\ Len(last'.b) = 0) =>
        /\ last'.result \notin {"ok", "NotImplemented"}
        /\ storage' = storage
        /\ cache_chain' = cache_chain
        /\ index_entries' = index_entries]_vars

C23_Witness ==
    /\ last.op = "chunk_and_write_array"
    /\ ~last.batched
    /\ last.b = <<>>
    /\ last.result = "UnboundLocalError"
    /\ Len(cache_chain) > 0
    /\ ncalls[last.key] = 1
    /\ IndexMapKey(last.key) \notin DOMAIN storage
    /\ \E t \in Tensors : IndexMapKey(t) \in DOMAIN storage

----------------------------------------------------------------------------
(* Properties of the cache chain (checked under SpecCache) *)

CacheWriteStep == last'.op = "write_bytes_with_caching" /\ ncache_ops' # ncache_ops
FlushStep == last'.op = "flush_cache" /\ ncache_ops' # ncache_ops

Tiers == 1..Len(cache_chain)

\* the values held under a key anywhere, tiers and backend, before the step
HeldValues(key) ==
    {cache_chain[i].mapper[key] : i \in {t \in Tiers : key \in DOMAIN cache_chain[t].mapper}}
    \cup (IF key \in DOMAIN storage THEN {storage[key]} ELSE {})

\* tier i as the placement scan of the step found it: as before the call, or
\* emptied by the flush that preceded the second scan
Untouched(i) ==
    IF last'.flushes = 0
    THEN cache_chain'[i] = cache_chain[i]
    ELSE DOMAIN cache_chain'[i].mapper = {}

\* C5: a successful write_bytes_with_caching stores the payload in exactly one
\* place: the backend when the chain is empty, else the first tier with space
\* at the moment of the scan; no later tier and not the backend.
C5_Placement ==
    [][(CacheWriteStep /\ last'.result = "ok") =>
        LET key == last'.skey
            b == last'.b
        IN IF Len(cache_chain) = 0
           THEN /\ storage' = SetKey(storage, key, b)
                /\ cache_chain' = cache_chain
           ELSE /\ \E t \in Tiers :
                      /\ key \in DOMAIN cache_chain'[t].mapper
                      /\ cache_chain'[t].mapper[key] = b
                      /\ cache_chain'[t].used_space <= cache_chain'[t].total_capacity
                      /\ \A i \in 1..(t - 1) : ~has_space(cache_chain'[i], Len(b))
                      /\ \A i \in Tiers \ {t} : Untouched(i)
                      /\ \A k \in (DOMAIN cache_chain'[t].mapper) \ {key} :
                            /\ last'.flushes = 0
                            /\ k \in DOMAIN cache_chain[t].mapper
                            /\ cache_chain'[t].mapper[k] = cache_chain[t].mapper[k]
                /\ last'.flushes = 0 => storage' = storage
                /\ last'.flushes # 0 =>
                      (key \in DOMAIN storage' => storage'[key] \in HeldValues(key))]_vars

C5_Witness ==
    /\ last.op = "write_bytes_with_caching"
    /\ last.result = "ok"
    /\ Len(cache_chain) = 2
    /\ last.skey \in DOMAIN cache_chain[2].mapper
    /\ cache_chain[2].mapper[last.skey] = last.b
    /\ ~has_space(cache_chain[1], Len(last.b))
    /\ last.skey \notin DOMAIN cache_chain[1].mapper

\* C6: when the chain is non-empty and no tier has space, the call flushes the
\* chain once (what was cached is on the backend, the tiers are emptied), scans
\* again once, and succeeds with the payload in the first tier whose total
\* capacity is at least len(bytes) whenever there is such a tier.
C6_FlushAndRetry ==
    [][(CacheWriteStep /\ Len(cache_chain) > 0
            /\ \A i \in Tiers : ~has_space(cache_chain[i], Len(last'.b))) =>
        LET key == last'.skey
            b == last'.b
            fits == {i \in Tiers : cache_chain[i].total_capacity >= Len(b)}
        IN /\ last'.flushes = 1
           /\ \A i \in Tiers : \A k \in DOMAIN cache_chain[i].mapper :
                 k \in DOMAIN storage' /\ storage'[k] \in HeldValues(k)
           /\ \A i \in Tiers : (DOMAIN cache_chain'[i].mapper) \subseteq {key}
           /\ fits # {} =>
                 /\ last'.result = "ok"
                 /\ \A t \in fits :
                       (\A i \in fits : t <= i) =>
                           /\ key \in DOMAIN cache_chain'[t].mapper
                           /\ cache_chain'[t].mapper[key] = b]_vars

\* C7: when no tier accepts the payload even after the flush, the call raises
\* and the payload is stored nowhere: no tier holds its key and the backend
\* holds under its key no value that was not held before the call.
C7_FailureAtomic ==
    [][CacheWriteStep =>
        LET key == last'.skey
            b == last'.b
        IN /\ (Len(cache_chain) > 0
                  /\ \A i \in Tiers : Len(b) > cache_chain[i].total_capacity)
              => last'.result = "CachingFailed"
           /\ last'.result = "CachingFailed" =>
                 /\ \A i \in Tiers : key \notin DOMAIN cache_chain'[i].mapper
                 /\ key \in DOMAIN storage' => storage'[key] \in HeldValues(key)
                 /\ key \notin DOMAIN storage' => HeldValues(key) = {}]_vars

C7_Witness ==
    /\ last.op = "write_bytes_with_caching"
    /\ last.result = "CachingFailed"
    /\ Len(cache_chain) > 0
    /\ \A i \in 1..Len(cache_chain) : Len(last.b) > cache_chain[i].total_capacity
    /\ last.skey \in DOMAIN storage
    /\ storage[last.skey] # last.b

\* C9: after flush_cache every tier holds no key and reports used_space 0, and
\* every key a tier held is on the backend.
C9_FlushContract ==
    [][FlushStep =>
        /\ \A i \in Tiers :
              /\ DOMAIN cache_chain'[i].mapper = {}
              /\ cache_chain'[i].used_space = 0
        /\ \A i \in Tiers : \A k \in DOMAIN cache_chain[i].mapper :
              k \in DOMAIN storage']_vars

\* C10: flushing a chain whose tiers hold no key leaves the backend unchanged
\* and every tier with zero used space.
C10_FlushIdempotent ==
    [][(FlushStep /\ \A i \in Tiers : DOMAIN cache_chain[i].mapper = {}) =>
        /\ storage' = storage
        /\ \A i \in Tiers : cache_chain'[i].used_space = 0]_vars

\* C22: a flush_cache that follows any sequence of write_bytes_with_caching
\* calls on a chain of two or more tiers leaves on the backend, for every
\* key written, the payload of the most recent write of that key.
C22_LastWriteWinsThroughCache ==
    [][(FlushStep /\ Len(cache_chain) >= 2) =>
        \A k \in DOMAIN written :
            k \in DOMAIN storage' /\ storage'[k] = written[k]]_vars

----------------------------------------------------------------------------
(* Properties of the chunk generator (checked under SpecGen) *)

RECURSIVE Flatten(_)
Flatten(seqs) == IF seqs = <<>> THEN <<>> ELSE Head(seqs) \o Flatten(Tail(seqs))

\* C14 as stated: the slices yielded over successive calls, with
\* last_chunk_num_bytes threaded as the length of the latest slice,
\* concatenate to the concatenation of the inputs, and every slice of a call
\* but its final one has length chunk_size.
C14_NonFinalSlicesFull ==
    /\ Flatten(gen.slices) = Flatten(SubSeq(gen.bytes_batch, 1, gen.fed))
    /\ \A i \in 1..(Len(gen.call.slices) - 1) :
          Len(gen.call.slices[i]) = chunk_size

\* C14 amended: the slices concatenate to the concatenation of the inputs,
\* and within one call every slice but the first and the final one has
\* length chunk_size; a first slice that is not the final one has length
\* chunk_size when the call starts a new chunk and
\* chunk_size - last_chunk_num_bytes when it fills the previous one.
C14_Reconstruction ==
    /\ Flatten(gen.slices) = Flatten(SubSeq(gen.bytes_batch, 1, gen.fed))
    /\ \A i \in 2..(Len(gen.call.slices) - 1) :
          Len(gen.call.slices[i]) = chunk_size
    /\ Len(gen.call.slices) > 1 =>
          Len(gen.call.slices[1])
              = IF gen.call.last_chunk_num_bytes = <<>>
                   \/ gen.call.last_chunk_num_bytes[1] >= chunk_size
                THEN chunk_size
                ELSE chunk_size - gen.call.last_chunk_num_bytes[1]

C14_Witness ==
    /\ gen.fed >= 2
    /\ gen.fed = Len(gen.bytes_batch)
    /\ Len(gen.call.slices) >= 2
    /\ Len(gen.call.slices[1]) < chunk_size
    /\ Len(Flatten(gen.slices)) >= 4

\* C15: assembling chunks as run_test does, no assembled chunk is longer than
\* chunk_size and every assembled chunk but the last has exactly chunk_size
\* bytes.
C15_ChunksWithinSize ==
    \A i \in 1..Len(gen.actual_chunks) :
        /\ Len(gen.actual_chunks[i]) <= chunk_size
        /\ i < Len(gen.actual_chunks) => Len(gen.actual_chunks[i]) = chunk_size

\* C16: for a non-empty input and a last_chunk_num_bytes below chunk_size, the
\* first slice has min(chunk_size - last_chunk_num_bytes, len(input)) bytes,
\* every later slice but the final one has chunk_size bytes, and the final
\* slice has between 1 and chunk_size bytes.
C16_ContinuationSlices ==
    (/\ gen.call.b # <<>>
     /\ gen.call.last_chunk_num_bytes # <<>>
     /\ gen.call.last_chunk_num_bytes[1] < chunk_size) =>
        /\ Len(gen.call.slices) >= 1
        /\ Len(gen.call.slices[1])
              = Min(chunk_size - gen.call.last_chunk_num_bytes[1], Len(gen.call.b))
        /\ \A i \in 2..(Len(gen.call.slices) - 1) :
              Len(gen.call.slices[i]) = chunk_size
        /\ Len(gen.call.slices[Len(gen.call.slices)]) \in 1..chunk_size

C16_Witness ==
    /\ gen.call.b # <<>>
    /\ gen.call.last_chunk_num_bytes # <<>>
    /\ gen.call.last_chunk_num_bytes[1] < chunk_size
    /\ Len(gen.call.slices) >= 3
    /\ Len(gen.call.slices[1]) < chunk_size
    /\ Len(gen.call.slices[Len(gen.call.slices)]) < chunk_size

----------------------------------------------------------------------------
(* Properties of the shape normaliser (checked under SpecNorm) *)

\* the input shape with the batch dimension an unbatched input is given
WithBatchAxis == IF norm.batched THEN norm.shape ELSE <<1>> \o norm.shape

\* the output has rank >= 2 and the product of the input, is the input (with
\* its batch dimension) less some trailing dimensions of size 1, ends in a 1
\* only at rank 2, and is (1, 1) for an input of ones only
NormalizedAsDocumented ==
    /\ Len(norm.out) >= 2
    /\ Product(norm.out) = Product(norm.shape)
    /\ Len(norm.out) <= Len(WithBatchAxis)
    /\ norm.out = SubSeq(WithBatchAxis, 1, Len(norm.out))
    /\ \A i \in (Len(norm.out) + 1)..Len(WithBatchAxis) : WithBatchAxis[i] = 1
    /\ norm.out[Len(norm.out)] = 1 => Len(norm.out) = 2
    /\ (\A i \in 1..Len(norm.shape) : norm.shape[i] = 1) => norm.out = <<1, 1>>

\* C17 as stated: for every input shape of rank 1 to 8 and either batched
\* flag the normalised shape is as documented.
C17_EveryRankEitherFlag == norm.done => NormalizedAsDocumented

\* C17 amended: for every input shape of rank 1 to 8 when batched is false,
\* and of rank 2 to 8 when batched is true, the normalised shape is as
\* documented.
C17_ShapeNormalized ==
    (norm.done /\ (norm.batched => Len(norm.shape) >= 2)) => NormalizedAsDocumented

C17_Witness ==
    /\ norm.done
    /\ norm.batched
    /\ Len(norm.shape) = 8
    /\ Len(norm.out) = 4
    /\ norm.out[4] = 2
    /\ norm.out[1] = 1

----------------------------------------------------------------------------
(* Properties of writes in progress (checked under SpecWriters) *)

\* C19: in every state of the backend, in the middle of a write call and
\* after a failed one included, every chunk key the backend holds for a key
\* lies in the chunk range of some entry of that key's index map.
C19_ChunksCovered ==
    \A k \in DOMAIN storage :
        IsChunkKey(k) =>
            /\ IndexMapKey(k[1]) \in DOMAIN storage
            /\ \E j \in 1..Len(pickle_loads(storage[IndexMapKey(k[1])])) :
                  /\ pickle_loads(storage[IndexMapKey(k[1])])[j].start_chunk <= k[3]
                  /\ k[3] <= pickle_loads(storage[IndexMapKey(k[1])])[j].end_chunk

\* the index entry and the stored chunks of writer w's sample
WriterEntry(w) == IndexMapEntry(race.arrays[w], 0, Len(WriterChunks(w)) - 1)
WriterStored(w, i) == Compress(compressor, WriterChunks(w)[i + 1])

\* C20: two write calls to one key interleave chunk write by chunk write and
\* nothing orders them: the index map is that of the writer whose index-map
\* write came last, and each chunk in its range holds the bytes of the writer
\* that wrote that chunk last, the other writer's when that one came later.
C20_LastWriteWins ==
    \A a \in Writers :
        (IndexMapKey(SharedKey) \in DOMAIN race.wrote
            /\ race.wrote[IndexMapKey(SharedKey)] = a) =>
            /\ IndexMapKey(SharedKey) \in DOMAIN storage
            /\ pickle_loads(storage[IndexMapKey(SharedKey)]) = <<WriterEntry(a)>>
            /\ \A i \in 0..(Len(WriterChunks(a)) - 1) :
                  /\ ChunkKey(SharedKey, i) \in DOMAIN storage
                  /\ ChunkKey(SharedKey, i) \in DOMAIN race.wrote
                  /\ storage[ChunkKey(SharedKey, i)]
                        = WriterStored(race.wrote[ChunkKey(SharedKey, i)], i)

\* both calls returned; the index entry describes writer a's sample and a
\* chunk in its range holds the bytes of the other writer's sample
C20_Witness ==
    \E a, b \in Writers :
        /\ a # b
        /\ race.pc[a].at = "returned"
        /\ race.pc[b].at = "returned"
        /\ pickle_loads(storage[IndexMapKey(SharedKey)]) = <<WriterEntry(a)>>
        /\ WriterEntry(a) # WriterEntry(b)
        /\ \E i \in 0..(Len(WriterChunks(a)) - 1) :
              /\ i < Len(WriterChunks(b))
              /\ storage[ChunkKey(SharedKey, i)] = WriterStored(b, i)
              /\ WriterStored(b, i) # WriterStored(a, i)

====
